---- MODULE Spec2Model ----
(***************************************************************************)
(* chess-bevy (src/main.rs): the move generator get_possible_moves, the   *)
(* board population at game setup and the per-frame systems around them.  *)
(*                                                                         *)
(* A BoardPosition is a record [x, y]; a move returned by                  *)
(* get_possible_moves is a tuple <<x, y>> (the code returns (i32, i32)).   *)
(* The Vec<&BoardPosition> arguments are only ever read through           *)
(* Vec::contains, so they are modelled as sets of BoardPositions; the      *)
(* returned Vec is a sequence in push order.  Coordinates stay far from    *)
(* the i32 limits, so i32 arithmetic is integer arithmetic.                *)
(***************************************************************************)
EXTENDS Integers, Sequences, FiniteSets, TLC

\* ------------------------------------------------------------------------
\* Program constants and types
\* ------------------------------------------------------------------------
PIECE_SIZE == 60
BOARD_SIZE == 8

Piece == {"King", "Queen", "Knight", "Pawn", "Bishop", "Rook"}

Player == {"White", "Black"}

BoardPositionNew(x, y) == [x |-> x, y |-> y]

\* ------------------------------------------------------------------------
\* Bounds of the model
\* ------------------------------------------------------------------------
\* origins range over [-OriginMargin, 7 + OriginMargin] on both axes
OriginMargin == 1
\* other pieces stand at most MaxOff steps along a ray from a sliding origin
MaxOff == 2
\* number of pieces on the board besides the queried one
MaxPieces == 2

\* ------------------------------------------------------------------------
\* Helpers of the model (sequences)
\* ------------------------------------------------------------------------
Range(s) == {s[i] : i \in 1..Len(s)}

RECURSIVE KSubsets(_, _)
KSubsets(S, n) ==
    IF n = 0 THEN {{}}
    ELSE LET P == KSubsets(S, n - 1)
         IN  P \cup {p \cup {e} : p \in P, e \in S}

\* ------------------------------------------------------------------------
\* get_allies_and_enemies
\* ------------------------------------------------------------------------
get_allies_and_enemies(piece_player, white_pieces_positions, black_pieces_positions) ==
    IF piece_player = "White"
    THEN <<white_pieces_positions, black_pieces_positions>>
    ELSE <<black_pieces_positions, white_pieces_positions>>

\* ------------------------------------------------------------------------
\* Knight
\* ------------------------------------------------------------------------
targets ==
    << <<1, 2>>, <<-1, 2>>, <<2, 1>>, <<2, -1>>,
       <<1, -2>>, <<-1, -2>>, <<-2, 1>>, <<-2, -1>> >>

\* faulty variant: the range test on the target's file is dropped
KnightTargetOkNoFileCheck(target, allies_positions) ==
    /\ target[2] >= 0
    /\ target[2] <= 7
    /\ BoardPositionNew(target[1], target[2]) \notin allies_positions

KnightTargetOk(target, allies_positions) ==
    /\ target[1] >= 0
    /\ target[1] <= 7
    /\ target[2] >= 0
    /\ target[2] <= 7
    /\ BoardPositionNew(target[1], target[2]) \notin allies_positions

RECURSIVE KnightLoop(_, _, _)
KnightLoop(i, piece_position, allies_positions) ==
    IF i > 8 THEN <<>>
    ELSE LET target == << piece_position.x + targets[i][1],
                          piece_position.y + targets[i][2] >>
         IN  (IF KnightTargetOk(target, allies_positions)
              THEN <<target>> ELSE <<>>)
             \o KnightLoop(i + 1, piece_position, allies_positions)

KnightMoves(piece_position, piece_player, white, black) ==
    LET ae == get_allies_and_enemies(piece_player, white, black)
    IN  KnightLoop(1, piece_position, ae[1])

\* ------------------------------------------------------------------------
\* Pawn
\* ------------------------------------------------------------------------
y_modifier(piece_player) == IF piece_player = "White" THEN 1 ELSE -1

\* faulty variant: Black's starting rank is off by one
starting_y_off(piece_player) == IF piece_player = "White" THEN 1 ELSE 5

starting_y(piece_player) == IF piece_player = "White" THEN 1 ELSE 6

\* faulty variant: the source-rank bound of the single step is dropped
PawnSingleStepNoBound(piece_position, ym, allies_positions, enemies_positions) ==
    /\ BoardPositionNew(piece_position.x, piece_position.y + 1 * ym)
           \notin allies_positions
    /\ BoardPositionNew(piece_position.x, piece_position.y + 1 * ym)
           \notin enemies_positions

PawnSingleStep(piece_position, ym, allies_positions, enemies_positions) ==
    /\ BoardPositionNew(piece_position.x, piece_position.y + 1 * ym)
           \notin allies_positions
    /\ BoardPositionNew(piece_position.x, piece_position.y + 1 * ym)
           \notin enemies_positions
    /\ piece_position.y < 7
    /\ piece_position.y > 0

PawnDoubleStep(piece_position, piece_player, ym, allies_positions, enemies_positions) ==
    /\ BoardPositionNew(piece_position.x, piece_position.y + 2 * ym)
           \notin allies_positions
    /\ BoardPositionNew(piece_position.x, piece_position.y + 2 * ym)
           \notin enemies_positions
    /\ piece_position.y = starting_y(piece_player)

\* faulty variant: the four pawn options chained as an if / else-if ladder
PawnCollectLadder(piece_position, ym, single, double, right, left) ==
    IF single THEN << <<piece_position.x, piece_position.y + 1 * ym>> >>
    ELSE IF double THEN << <<piece_position.x, piece_position.y + 2 * ym>> >>
    ELSE IF right THEN << <<piece_position.x + 1, piece_position.y + 1 * ym>> >>
    ELSE IF left THEN << <<piece_position.x - 1, piece_position.y + 1 * ym>> >>
    ELSE <<>>

PawnCollect(piece_position, ym, single, double, right, left) ==
    (IF single THEN << <<piece_position.x, piece_position.y + 1 * ym>> >> ELSE <<>>)
    \o (IF double THEN << <<piece_position.x, piece_position.y + 2 * ym>> >> ELSE <<>>)
    \o (IF right THEN << <<piece_position.x + 1, piece_position.y + 1 * ym>> >> ELSE <<>>)
    \o (IF left THEN << <<piece_position.x - 1, piece_position.y + 1 * ym>> >> ELSE <<>>)

PawnMoves(piece_position, piece_player, white, black) ==
    LET ae == get_allies_and_enemies(piece_player, white, black)
        allies_positions == ae[1]
        enemies_positions == ae[2]
        ym == y_modifier(piece_player)
    IN  PawnCollect(piece_position, ym,
            PawnSingleStep(piece_position, ym, allies_positions, enemies_positions),
            PawnDoubleStep(piece_position, piece_player, ym,
                           allies_positions, enemies_positions),
            BoardPositionNew(piece_position.x + 1, piece_position.y + 1 * ym)
                \in enemies_positions,
            BoardPositionNew(piece_position.x - 1, piece_position.y + 1 * ym)
                \in enemies_positions)

\* ------------------------------------------------------------------------
\* Bishop and Rook: the sliding loop (`while path`), textually the same in
\* both match arms
\* ------------------------------------------------------------------------
bishop_ex_pos == << <<1, 1>>, <<1, -1>>, <<-1, 1>>, <<-1, -1>> >>

rook_ex_pos == << <<0, 1>>, <<0, -1>>, <<1, 0>>, <<-1, 0>> >>

\* faulty variant: an enemy square does not end the ray
RECURSIVE SlideRayThroughEnemy(_, _, _, _, _)
SlideRayThroughEnemy(piece_position, ex_pos, chain, allies_positions, enemies_positions) ==
    LET cx == piece_position.x + ex_pos[1] * chain
        cy == piece_position.y + ex_pos[2] * chain
    IN  IF /\ BoardPositionNew(cx, cy) \notin allies_positions
           /\ cx >= 0 /\ cx <= 7 /\ cy >= 0 /\ cy <= 7
        THEN << <<cx, cy>> >>
             \o SlideRayThroughEnemy(piece_position, ex_pos, chain + 1,
                                     allies_positions, enemies_positions)
        ELSE <<>>

RECURSIVE SlideRay(_, _, _, _, _)
SlideRay(piece_position, ex_pos, chain, allies_positions, enemies_positions) ==
    LET cx == piece_position.x + ex_pos[1] * chain
        cy == piece_position.y + ex_pos[2] * chain
    IN  IF /\ BoardPositionNew(cx, cy) \notin allies_positions
           /\ cx >= 0 /\ cx <= 7 /\ cy >= 0 /\ cy <= 7
        THEN << <<cx, cy>> >>
             \o (IF BoardPositionNew(cx, cy) \in enemies_positions
                 THEN <<>>
                 ELSE SlideRay(piece_position, ex_pos, chain + 1,
                               allies_positions, enemies_positions))
        ELSE <<>>

RECURSIVE SlideDirections(_, _, _, _, _, _)
SlideDirections(i, dirs, piece_position, piece_player, white, black) ==
    IF i > 4 THEN <<>>
    ELSE LET ae == get_allies_and_enemies(piece_player, white, black)
         IN  SlideRay(piece_position, dirs[i], 1, ae[1], ae[2])
             \o SlideDirections(i + 1, dirs, piece_position, piece_player,
                                white, black)

BishopMoves(piece_position, piece_player, white, black) ==
    SlideDirections(1, bishop_ex_pos, piece_position, piece_player, white, black)

RookMoves(piece_position, piece_player, white, black) ==
    SlideDirections(1, rook_ex_pos, piece_position, piece_player, white, black)

\* ------------------------------------------------------------------------
\* get_possible_moves
\* ------------------------------------------------------------------------
get_possible_moves(piece_type, piece_position, piece_player, white_pieces_positions, black_pieces_positions) ==
    CASE piece_type = "King" -> <<>>
      [] piece_type = "Queen" -> <<>>
      [] piece_type = "Knight" ->
            KnightMoves(piece_position, piece_player,
                        white_pieces_positions, black_pieces_positions)
      [] piece_type = "Pawn" ->
            PawnMoves(piece_position, piece_player,
                      white_pieces_positions, black_pieces_positions)
      [] piece_type = "Bishop" ->
            BishopMoves(piece_position, piece_player,
                        white_pieces_positions, black_pieces_positions)
      [] piece_type = "Rook" ->
            RookMoves(piece_position, piece_player,
                      white_pieces_positions, black_pieces_positions)

\* ------------------------------------------------------------------------
\* State
\* ------------------------------------------------------------------------
VARIABLES
    population_done,  \* resource BoardPopulationDone
    current_turn,     \* resource CurrentTurn
    selected_piece,   \* resource SelectedPiece: None or Some(entity)
    commands,         \* spawn commands queued during the frame, not yet applied
    pieces,           \* the piece entities of the world, by entity number
    tiles,            \* the tile entities, by board position
    ran,              \* the systems that have run in the current frame
    last_click,       \* history: what the last handled left click landed on
    q_type,           \* last get_possible_moves call: piece_type
    q_pos,            \* last get_possible_moves call: piece_position
    q_player,         \* last get_possible_moves call: piece_player
    q_white,          \* last get_possible_moves call: white_pieces_positions
    q_black,          \* last get_possible_moves call: black_pieces_positions
    q_called,         \* get_possible_moves has been called and has returned
    q_result          \* the Vec the last call returned (what dbg! prints)

game_vars == <<population_done, current_turn, selected_piece, commands, pieces, tiles, ran, last_click>>

query_vars == <<q_type, q_pos, q_player, q_white, q_black, q_called, q_result>>

vars == <<game_vars, query_vars>>

\* Option<Entity>: entities are numbered from 1, None is 0
None == 0

\* ------------------------------------------------------------------------
\* The state main() and the startup systems leave behind
\* ------------------------------------------------------------------------
get_tile_color(x, y) ==
    IF (x % 2 = 1 /\ y % 2 # 1) \/ (x % 2 # 1 /\ y % 2 = 1)
    THEN "LIME_GREEN"
    ELSE "GREEN"

\* Transform::default() has translation (0, 0)
DefaultTranslation == [x |-> 0, y |-> 0]

TilePositions ==
    {BoardPositionNew(x, y) : x \in 0..(BOARD_SIZE - 1), y \in 0..(BOARD_SIZE - 1)}

generate_board ==
    [p \in TilePositions |->
        [color |-> get_tile_color(p.x, p.y), translation |-> DefaultTranslation]]

InitGame ==
    /\ population_done = FALSE
    /\ current_turn = "White"
    /\ selected_piece = None
    /\ commands = <<>>
    /\ pieces = <<>>
    /\ tiles = generate_board
    /\ ran = {}
    /\ last_click = "none"

\* ------------------------------------------------------------------------
\* Inputs of one get_possible_moves call
\* ------------------------------------------------------------------------
Origins ==
    {BoardPositionNew(x, y) : x \in (0 - OriginMargin)..(7 + OriginMargin),
                              y \in (0 - OriginMargin)..(7 + OriginMargin)}

\* offsets from the origin at which another piece can matter to a piece of
\* this kind: the squares its rule looks at, for either owner
Offsets(kind) ==
    CASE kind = "Knight" -> Range(targets)
      [] kind = "Pawn" ->
            {<<0, 1>>, <<0, 2>>, <<1, 1>>, <<-1, 1>>,
             <<0, -1>>, <<0, -2>>, <<1, -1>>, <<-1, -1>>}
      [] kind = "Bishop" ->
            {<<d[1] * k, d[2] * k>> : d \in Range(bishop_ex_pos), k \in 1..MaxOff}
      [] kind = "Rook" ->
            {<<d[1] * k, d[2] * k>> : d \in Range(rook_ex_pos), k \in 1..MaxOff}
      [] OTHER -> Range(bishop_ex_pos) \cup Range(rook_ex_pos)

Neighbourhood(kind, pos) ==
    {BoardPositionNew(pos.x + o[1], pos.y + o[2]) : o \in Offsets(kind)}

\* The caller (display_possible_piece_movements) passes every piece of the
\* board, the queried one included, split by owner: the two collections are
\* disjoint and the origin is among the mover's own.
InitMoves ==
    /\ q_type \in Piece
    /\ q_player \in Player
    /\ q_pos \in Origins
    /\ \E others \in KSubsets(Neighbourhood(q_type, q_pos), MaxPieces) :
         \E wh \in SUBSET others :
            /\ q_white = wh \cup (IF q_player = "White" THEN {q_pos} ELSE {})
            /\ q_black = (others \ wh) \cup (IF q_player = "Black" THEN {q_pos} ELSE {})
    /\ q_called = FALSE
    /\ q_result = <<>>
    /\ InitGame

Call ==
    /\ ~q_called
    /\ q_called' = TRUE
    /\ q_result' = get_possible_moves(q_type, q_pos, q_player, q_white, q_black)
    /\ UNCHANGED <<q_type, q_pos, q_player, q_white, q_black>>
    /\ UNCHANGED game_vars

NextMoves == Call

SpecMoves == InitMoves /\ [][NextMoves]_vars

\* ------------------------------------------------------------------------
\* Game setup: spawn_piece, spawn_white_pieces, spawn_black_pieces
\* (the sprite of a piece is rendering only and is left out)
\* ------------------------------------------------------------------------
spawn_piece(piece_type, player, x, y) ==
    [piece |-> piece_type, player |-> player, pos |-> BoardPositionNew(x, y),
     translation |-> DefaultTranslation]

spawn_white_pieces ==
    << spawn_piece("King", "White", 4, 0),
       spawn_piece("Queen", "White", 3, 0),
       spawn_piece("Knight", "White", 1, 0),
       spawn_piece("Knight", "White", 6, 0),
       spawn_piece("Bishop", "White", 2, 0),
       spawn_piece("Bishop", "White", 5, 0),
       spawn_piece("Rook", "White", 0, 0),
       spawn_piece("Rook", "White", 7, 0) >>
    \o [i \in 1..BOARD_SIZE |-> spawn_piece("Pawn", "White", i - 1, 1)]

spawn_black_pieces ==
    << spawn_piece("King", "Black", 3, 7),
       spawn_piece("Queen", "Black", 4, 7),
       spawn_piece("Knight", "Black", 1, 7),
       spawn_piece("Knight", "Black", 6, 7),
       spawn_piece("Bishop", "Black", 2, 7),
       spawn_piece("Bishop", "Black", 5, 7),
       spawn_piece("Rook", "Black", 0, 7),
       spawn_piece("Rook", "Black", 7, 7) >>
    \o [i \in 1..BOARD_SIZE |-> spawn_piece("Pawn", "Black", i - 1, 6)]

\* ------------------------------------------------------------------------
\* The per-frame systems.  The four systems run once per frame in an order
\* the scheduler is free to choose; the commands they queue are applied when
\* all of them have run (apply_system_buffers).
\* ------------------------------------------------------------------------
Systems ==
    {"populate_board", "update_pieces_positions",
     "handle_piece_selection", "display_possible_piece_movements"}

\* faulty variant: the flag is never set
populate_board_flag_not_set ==
    /\ "populate_board" \notin ran
    /\ ran' = ran \cup {"populate_board"}
    /\ IF ~population_done
       THEN /\ commands' = commands \o spawn_white_pieces \o spawn_black_pieces
            /\ UNCHANGED population_done
       ELSE UNCHANGED <<commands, population_done>>
    /\ UNCHANGED <<current_turn, selected_piece, pieces, tiles, last_click, query_vars>>

populate_board ==
    /\ "populate_board" \notin ran
    /\ ran' = ran \cup {"populate_board"}
    /\ IF ~population_done
       THEN /\ commands' = commands \o spawn_white_pieces \o spawn_black_pieces
            /\ population_done' = TRUE
       ELSE UNCHANGED <<commands, population_done>>
    /\ UNCHANGED <<current_turn, selected_piece, pieces, tiles, last_click, query_vars>>

Translation(position) ==
    [x |-> position.x * PIECE_SIZE + (PIECE_SIZE \div 2),
     y |-> position.y * PIECE_SIZE + (PIECE_SIZE \div 2)]

\* every entity with a Transform and a BoardPosition: the pieces and the tiles
update_pieces_positions ==
    /\ "update_pieces_positions" \notin ran
    /\ ran' = ran \cup {"update_pieces_positions"}
    /\ pieces' = [i \in 1..Len(pieces) |->
                    [pieces[i] EXCEPT !.translation = Translation(pieces[i].pos)]]
    /\ tiles' = [p \in TilePositions |->
                    [tiles[p] EXCEPT !.translation = Translation(p)]]
    /\ UNCHANGED <<population_done, current_turn, selected_piece, commands, last_click, query_vars>>

\* (pos.round() / PIECE_SIZE as f32).floor() as i32, on whole pixels
to_board_posistion(pos) == pos \div PIECE_SIZE

\* clicks land on the board cells -ClickMargin .. 7 + ClickMargin of each axis
ClickMargin == 1

\* world coordinates of a click: the first and the last pixel of each cell
ClickCoords ==
    {c * PIECE_SIZE + o : c \in (0 - ClickMargin)..(BOARD_SIZE - 1 + ClickMargin),
                          o \in {0, PIECE_SIZE - 1}}

WorldPositions == {[x |-> wx, y |-> wy] : wx \in ClickCoords, wy \in ClickCoords}

\* the loop over the pieces, from piece i on, with the selection so far:
\* <<selected_piece.0, selected_piece_board_position>>, the position an
\* Option: {} for None, {p} for Some(p)
\* faulty variant: the owner of the piece is not compared with the turn
RECURSIVE SelectLoopAnyOwner(_, _, _)
SelectLoopAnyOwner(i, world_position, sel) ==
    IF i > Len(pieces) THEN sel
    ELSE IF /\ pieces[i].pos.x = to_board_posistion(world_position.x)
            /\ pieces[i].pos.y = to_board_posistion(world_position.y)
         THEN <<i, {pieces[i].pos}>>
         ELSE SelectLoopAnyOwner(i + 1, world_position, <<None, sel[2]>>)

RECURSIVE SelectLoop(_, _, _)
SelectLoop(i, world_position, sel) ==
    IF i > Len(pieces) THEN sel
    ELSE IF /\ pieces[i].player = current_turn
            /\ pieces[i].pos.x = to_board_posistion(world_position.x)
            /\ pieces[i].pos.y = to_board_posistion(world_position.y)
         THEN <<i, {pieces[i].pos}>>
         ELSE SelectLoop(i + 1, world_position, <<None, sel[2]>>)

TileColorAfterClick(tile_pos, selected_piece_board_position) ==
    IF selected_piece_board_position # {}
    THEN IF \E some \in selected_piece_board_position :
               /\ tile_pos.x = some.x
               /\ tile_pos.y = some.y
         THEN "YELLOW"
         ELSE get_tile_color(tile_pos.x, tile_pos.y)
    ELSE get_tile_color(tile_pos.x, tile_pos.y)

\* the clicked square holds a piece of the player whose turn it is
OwnPieceAt(world_position) ==
    \E i \in 1..Len(pieces) :
        /\ pieces[i].player = current_turn
        /\ pieces[i].pos = BoardPositionNew(to_board_posistion(world_position.x),
                                            to_board_posistion(world_position.y))

handle_piece_selection ==
    /\ "handle_piece_selection" \notin ran
    /\ ran' = ran \cup {"handle_piece_selection"}
    /\ \/ \* no left click this frame, or no cursor position
          UNCHANGED <<selected_piece, tiles, last_click>>
       \/ \E world_position \in WorldPositions :
             \E sel \in {SelectLoop(1, world_position, <<selected_piece, {}>>)} :
                 /\ last_click' = (IF OwnPieceAt(world_position) THEN "hit" ELSE "miss")
                 /\ selected_piece' = sel[1]
                 /\ tiles' = [p \in TilePositions |->
                                [tiles[p] EXCEPT
                                    !.color = TileColorAfterClick(p, sel[2])]]
    /\ UNCHANGED <<population_done, current_turn, commands, pieces, query_vars>>

PositionsOf(player) ==
    {pieces[i].pos : i \in {j \in 1..Len(pieces) : pieces[j].player = player}}

display_possible_piece_movements ==
    /\ "display_possible_piece_movements" \notin ran
    /\ ran' = ran \cup {"display_possible_piece_movements"}
    /\ IF selected_piece # None
       THEN LET white_pieces_positions == PositionsOf("White")
                black_pieces_positions == PositionsOf("Black")
                selected == pieces[selected_piece]
            IN  /\ q_type' = selected.piece
                /\ q_pos' = selected.pos
                /\ q_player' = selected.player
                /\ q_white' = white_pieces_positions
                /\ q_black' = black_pieces_positions
                /\ q_called' = TRUE
                /\ q_result' = get_possible_moves(selected.piece, selected.pos,
                                                  selected.player,
                                                  white_pieces_positions,
                                                  black_pieces_positions)
       ELSE UNCHANGED query_vars
    /\ UNCHANGED <<population_done, current_turn, selected_piece, commands, pieces, tiles, last_click>>

\* end of the frame: the queued commands spawn their entities
apply_system_buffers ==
    /\ ran = Systems
    /\ ran' = {}
    /\ pieces' = pieces \o commands
    /\ commands' = <<>>
    /\ UNCHANGED <<population_done, current_turn, selected_piece, tiles, last_click, query_vars>>

Init ==
    /\ InitGame
    /\ q_type = "King"
    /\ q_pos = BoardPositionNew(0, 0)
    /\ q_player = "White"
    /\ q_white = {}
    /\ q_black = {}
    /\ q_called = FALSE
    /\ q_result = <<>>

Next ==
    \/ populate_board
    \/ update_pieces_positions
    \/ handle_piece_selection
    \/ display_possible_piece_movements
    \/ apply_system_buffers

Spec == Init /\ [][Next]_vars

\* ------------------------------------------------------------------------
\* Vocabulary of the properties of get_possible_moves
\* ------------------------------------------------------------------------
InRange(x, y) == x >= 0 /\ x <= 7 /\ y >= 0 /\ y <= 7

Friendly == IF q_player = "White" THEN q_white ELSE q_black

Enemy == IF q_player = "White" THEN q_black ELSE q_white

Occupied(x, y) == BoardPositionNew(x, y) \in (q_white \cup q_black)

Returned(x, y) == <<x, y>> \in Range(q_result)

OriginInRange == InRange(q_pos.x, q_pos.y)

Dir == y_modifier(q_player)

Directions == IF q_type = "Bishop" THEN Range(bishop_ex_pos) ELSE Range(rook_ex_pos)

\* the square at distance k from the origin along direction d
RayX(d, k) == q_pos.x + d[1] * k

RayY(d, k) == q_pos.y + d[2] * k

RayFriendly(d, k) == BoardPositionNew(RayX(d, k), RayY(d, k)) \in Friendly

RayEnemy(d, k) == BoardPositionNew(RayX(d, k), RayY(d, k)) \in Enemy

\* C1: for a Bishop or a Rook at an in-range origin, the square at distance
\* k >= 1 along a direction is returned if and only if every square at
\* distances 1..k along it is on the board and not friendly-occupied and no
\* square at distances 1..k-1 along it is enemy-occupied.
C1_SlidingRays ==
    (q_called /\ q_type \in {"Bishop", "Rook"} /\ OriginInRange) =>
        \A d \in Directions : \A k \in 1..(BOARD_SIZE + 1) :
            Returned(RayX(d, k), RayY(d, k)) <=>
                /\ \A j \in 1..k : InRange(RayX(d, j), RayY(d, j)) /\ ~RayFriendly(d, j)
                /\ \A j \in 1..(k - 1) : ~RayEnemy(d, j)

\* a rook with one ray cut short by a friendly piece at distance 2 and another
\* ended by the capture of an enemy at distance 1 with board left behind it
C1_Witness ==
    /\ q_called
    /\ q_type = "Rook"
    /\ OriginInRange
    /\ \E d \in Directions :
          /\ RayFriendly(d, 2)
          /\ Returned(RayX(d, 1), RayY(d, 1))
          /\ ~Returned(RayX(d, 2), RayY(d, 2))
    /\ \E d \in Directions :
          /\ RayEnemy(d, 1)
          /\ InRange(RayX(d, 2), RayY(d, 2))
          /\ Returned(RayX(d, 1), RayY(d, 1))
          /\ ~Returned(RayX(d, 2), RayY(d, 2))

\* C2: for a Pawn at an in-range origin, the double step square is returned
\* if and only if the origin is on the owner's starting rank and both the
\* intervening square and the destination square are empty.
C2_DoubleStep ==
    (q_called /\ q_type = "Pawn" /\ OriginInRange) =>
        (Returned(q_pos.x, q_pos.y + 2 * Dir) <=>
            /\ q_pos.y = (IF q_player = "White" THEN 1 ELSE 6)
            /\ ~Occupied(q_pos.x, q_pos.y + Dir)
            /\ ~Occupied(q_pos.x, q_pos.y + 2 * Dir))

\* the squares at the eight knight offsets from the origin
KnightSquares == {<<q_pos.x + t[1], q_pos.y + t[2]>> : t \in Range(targets)}

\* C3: for a Knight at an in-range origin, the squares returned are exactly
\* the squares at the eight offsets that are on the board and not
\* friendly-occupied; an enemy on the target does not exclude it.
C3_Knight ==
    (q_called /\ q_type = "Knight" /\ OriginInRange) =>
        Range(q_result) =
            {t \in KnightSquares :
                InRange(t[1], t[2]) /\ BoardPositionNew(t[1], t[2]) \notin Friendly}

\* a knight near the edge with an enemy on one target (returned) and a
\* friendly piece on another (not returned)
C3_Witness ==
    /\ q_called
    /\ q_type = "Knight"
    /\ OriginInRange
    /\ \E t \in KnightSquares : ~InRange(t[1], t[2])
    /\ \E t \in KnightSquares :
          BoardPositionNew(t[1], t[2]) \in Enemy /\ t \in Range(q_result)
    /\ \E t \in KnightSquares :
          /\ InRange(t[1], t[2])
          /\ BoardPositionNew(t[1], t[2]) \in Friendly
          /\ t \notin Range(q_result)

\* C4 as stated: for a Pawn at an in-range origin, the single step square is
\* returned if and only if the square immediately ahead is empty.
C4_SingleStepOriginal ==
    (q_called /\ q_type = "Pawn" /\ OriginInRange) =>
        (Returned(q_pos.x, q_pos.y + Dir) <=> ~Occupied(q_pos.x, q_pos.y + Dir))

\* C4 as amended: for a Pawn at an in-range origin, the single step square is
\* returned if and only if the square immediately ahead is empty and the
\* origin rank lies strictly between 0 and 7.
C4_SingleStep ==
    (q_called /\ q_type = "Pawn" /\ OriginInRange) =>
        (Returned(q_pos.x, q_pos.y + Dir) <=>
            /\ ~Occupied(q_pos.x, q_pos.y + Dir)
            /\ 0 < q_pos.y
            /\ q_pos.y < 7)

\* a Black pawn on rank 1 steps onto the empty rank 0
C4_Witness ==
    /\ q_called
    /\ q_type = "Pawn"
    /\ q_player = "Black"
    /\ OriginInRange
    /\ q_pos.y = 1
    /\ ~Occupied(q_pos.x, 0)
    /\ Returned(q_pos.x, 0)

\* C5: for a Pawn, each diagonal capture square is returned if and only if it
\* is in the enemy set, whatever the other diagonal and the forward steps do;
\* the options that hold are returned together: a White pawn at (4,1) with
\* enemies at (5,2) and (3,2) gets exactly {(4,2),(4,3),(5,2),(3,2)}.
C5_DiagonalCaptures ==
    (q_called /\ q_type = "Pawn") =>
        /\ Returned(q_pos.x + 1, q_pos.y + Dir)
              <=> BoardPositionNew(q_pos.x + 1, q_pos.y + Dir) \in Enemy
        /\ Returned(q_pos.x - 1, q_pos.y + Dir)
              <=> BoardPositionNew(q_pos.x - 1, q_pos.y + Dir) \in Enemy
        /\ ( /\ q_player = "White"
             /\ q_pos = BoardPositionNew(4, 1)
             /\ q_white = {BoardPositionNew(4, 1)}
             /\ q_black = {BoardPositionNew(5, 2), BoardPositionNew(3, 2)} )
           => Range(q_result) = {<<4, 2>>, <<4, 3>>, <<5, 2>>, <<3, 2>>}

\* the (4,1) scenario: forward step, double step and both captures
C5_Witness ==
    /\ q_called
    /\ q_type = "Pawn"
    /\ q_player = "White"
    /\ q_pos = BoardPositionNew(4, 1)
    /\ q_black = {BoardPositionNew(5, 2), BoardPositionNew(3, 2)}
    /\ Len(q_result) = 4

\* C6: for every piece kind, owner and in-range origin, every square returned
\* lies on the board, whatever squares the two collections hold.
C6_ResultInRange ==
    (q_called /\ OriginInRange) =>
        \A m \in Range(q_result) : InRange(m[1], m[2])

\* C7: a call with an origin outside the board returns an empty result.
C7_OutsideOriginEmpty ==
    (q_called /\ ~OriginInRange) => q_result = <<>>

\* the rank mirror (x, y) -> (x, 7 - y) of a position, a collection, a result
MirrorPosition(p) == BoardPositionNew(p.x, 7 - p.y)

MirrorPositions(S) == {MirrorPosition(p) : p \in S}

MirrorMoves(ms) == [i \in 1..Len(ms) |-> <<ms[i][1], 7 - ms[i][2]>>]

\* C8: the result for a White pawn equals the rank mirror of the result for a
\* Black pawn at the mirrored origin on the mirrored board with owners swapped.
C8_PawnSymmetry ==
    (q_called /\ q_type = "Pawn" /\ q_player = "White") =>
        q_result =
            MirrorMoves(get_possible_moves("Pawn", MirrorPosition(q_pos), "Black",
                                           MirrorPositions(q_black),
                                           MirrorPositions(q_white)))

\* a White pawn on its starting rank with a double step and a capture
C8_Witness ==
    /\ q_called
    /\ q_type = "Pawn"
    /\ q_player = "White"
    /\ q_pos.y = 1
    /\ Returned(q_pos.x, 3)
    /\ \E m \in Range(q_result) : m[1] # q_pos.x

\* ------------------------------------------------------------------------
\* Properties of the game setup
\* ------------------------------------------------------------------------
\* everything spawned so far: the entities and the commands still queued
Spawned == pieces \o commands

Placed == {[piece |-> e.piece, player |-> e.player, pos |-> e.pos] : e \in Range(Spawned)}

BackRank(player) == IF player = "White" THEN 0 ELSE 7

PawnRank(player) == IF player = "White" THEN 1 ELSE 6

StandardFile ==
    {<<"Rook", 0>>, <<"Knight", 1>>, <<"Bishop", 2>>, <<"Queen", 3>>,
     <<"King", 4>>, <<"Bishop", 5>>, <<"Knight", 6>>, <<"Rook", 7>>}

StandardLayout ==
    {[piece |-> kf[1], player |-> pl, pos |-> BoardPositionNew(kf[2], BackRank(pl))] :
        kf \in StandardFile, pl \in Player}
    \cup
    {[piece |-> "Pawn", player |-> pl, pos |-> BoardPositionNew(f, PawnRank(pl))] :
        f \in 0..7, pl \in Player}

\* C9: the pieces created at game setup form the standard starting layout:
\* rooks on files 0 and 7, knights on 1 and 6, bishops on 2 and 5, queen on 3
\* and king on 4 of each owner's back rank, eight pawns on rank 1 / rank 6.
C9_StandardLayout ==
    population_done => Placed = StandardLayout

\* C10: in every reachable state no two placed pieces share a square; the
\* pieces are spawned exactly once, when the flag is found false: nothing is
\* spawned before, and 32 pieces on 32 distinct squares ever after.
C10_DistinctSquares ==
    /\ \A i, j \in 1..Len(Spawned) : i # j => Spawned[i].pos # Spawned[j].pos
    /\ Len(Spawned) = (IF population_done THEN 32 ELSE 0)
    /\ Len(pieces) \in {0, 32}

\* a later frame: the 32 pieces are in the world and populate_board has run again
C10_Witness ==
    /\ Len(pieces) = 32
    /\ "populate_board" \in ran
    /\ commands = <<>>

\* ------------------------------------------------------------------------
\* Properties of the selection
\* ------------------------------------------------------------------------
\* C11: after any sequence of frames and left clicks, a selected entity is a
\* piece of the world owned by the player in CurrentTurn, so every
\* get_possible_moves call made by display_possible_piece_movements is for a
\* piece of the side to move; and after a click on a square that holds no
\* piece of the current player nothing is selected.
C11_SelectionOwnedByTurn ==
    /\ selected_piece # None =>
          /\ selected_piece \in 1..Len(pieces)
          /\ pieces[selected_piece].player = current_turn
    /\ q_called => q_player = current_turn
    /\ last_click = "miss" => selected_piece = None

\* a piece was selected and its moves were displayed, then a click on a
\* square without a piece of the current player dropped the selection
C11_Witness ==
    /\ q_called
    /\ q_player = current_turn
    /\ last_click = "miss"
    /\ selected_piece = None
    /\ Len(pieces) = 32

====
